---- MODULE Spec2Model ----
(***************************************************************************)
(* A model of GANDLF/losses/regression.py: the cross-entropy family (CEL,  *)
(* CE_Logits, CE, CCE_Generic) and the regression losses (L1, MSE and the  *)
(* aggregators L1_loss, MSE_loss).                                         *)
(*                                                                         *)
(* Every function of the file is a call: Init draws the call's arguments   *)
(* from bounded sets, and the actions run the function's body.  The loops  *)
(* of CCE_Generic, L1_loss and MSE_loss run one iteration per action.      *)
(*                                                                         *)
(* Numbers.  Losses are rationals: a value is [nums, den], a sequence of   *)
(* numerators over one positive denominator (a scalar has one numerator,   *)
(* the result of reduction "none" has one per element).  The elements of   *)
(* the target of CE and CE_Logits are counted in halves, so that 1 stands  *)
(* for 0.5 and 4 for 2.0.                                                  *)
(***************************************************************************)
EXTENDS Integers, Sequences, FiniteSets, TLC

VARIABLES
    fn,         \* the function being called
    args,       \* its arguments
    pc,         \* the position in its body
    i,          \* the loop variable of the per-class loops
    acc,        \* the accumulator (acc_ce_loss, acc_mse_loss)
    reduction,  \* MSE_loss's local variable `reduction`
    calls,      \* the calls made to the loss primitives, in order
    reads,      \* the configuration keys read so far
    result      \* what the call returned or raised

vars == <<fn, args, pc, i, acc, reduction, calls, reads, result>>

----------------------------------------------------------------------------
(* Bounds of the model. *)

\* the longest flattened target of CE and CE_Logits
MaxElems == 2
\* the largest rank and the largest dimension of the output of CEL
MaxRank == 3
MaxDim == 3
\* the largest batch and the most class channels of a [batch, class] tensor
MaxBatch == 2
MaxClasses == 2

----------------------------------------------------------------------------
(* What a call ends in. *)

Pending == [kind |-> "pending"]
Raise(exc) == [kind |-> "error", exc |-> exc]
Return(val) == [kind |-> "value", val |-> val]

RECURSIVE SeqsUpTo(_, _)
\* the sequences over S of length 0 .. n
SeqsUpTo(S, n) ==
    IF n = 0 THEN {<<>>}
    ELSE LET shorter == SeqsUpTo(S, n - 1)
         IN  shorter \cup {Append(s, x) : s \in {t \in shorter : Len(t) = n - 1}, x \in S}

----------------------------------------------------------------------------
(* CE_Logits and CE: the binary check and the delegated loss. *)

\* target elements, in halves: -1, -0.5, 0, 0.5, 1, 2, 256, 257
TargetHalves == {-2, -1, 0, 1, 2, 4, 512, 514}
\* output elements, in halves
OutHalves == {0, 2}

Trunc(h) == IF h >= 0 THEN h \div 2 ELSE -((-h) \div 2)

\* torch's Tensor.byte() on one element: the values a cast to uint8 can give.
\* An integer tensor wraps modulo 256.  A floating-point element is truncated
\* toward zero; when the truncated value is outside 0 .. 255 the conversion is
\* undefined and a build may saturate, give zero or wrap.
ByteCast(h, dtype) ==
    IF dtype = "int" THEN {Trunc(h) % 256}
    ELSE IF Trunc(h) >= 0 /\ Trunc(h) <= 255 THEN {Trunc(h)}
    ELSE {0, 255, Trunc(h) % 256}

\* the tensors target.byte() can be: one cast per element
ByteTensors(target, dtype) ==
    LET casts == UNION {ByteCast(target[k], dtype) : k \in 1 .. Len(target)}
    IN  {bt \in [1 .. Len(target) -> casts] :
            \A k \in 1 .. Len(target) : bt[k] \in ByteCast(target[k], dtype)}

\* torch.all(target.byte() == target), the comparison made after promotion
AllEqual(bt, target) == \A k \in 1 .. Len(target) : 2 * bt[k] = target[k]

\* the check of CE and CE_Logits: TRUE when the target is let through
BinaryCheck(bt, target) == AllEqual(bt, target)

BCEInit ==
    /\ fn \in {"CE_Logits", "CE"}
    /\ \E n \in 1 .. MaxElems, dtype \in {"float", "int"} :
         \E target \in [1 .. n -> TargetHalves], o \in OutHalves :
            /\ dtype = "int" => \A k \in 1 .. n : target[k] % 2 = 0
            /\ args = [out |-> [k \in 1 .. n |-> o], target |-> target, dtype |-> dtype]
    /\ pc = "call"
    /\ i = 0
    /\ acc = 0
    /\ reduction = "mean"
    /\ calls = <<>>
    /\ reads = {}
    /\ result = Pending

\* the body of a binary cross-entropy: the check, then the torch loss on the
\* flattened tensors
BinaryLoss(name, loss) ==
    /\ fn = name
    /\ pc = "call"
    /\ \E bt \in ByteTensors(args.target, args.dtype) :
         IF ~BinaryCheck(bt, args.target)
         THEN /\ result' = Raise("ValueError")
              /\ calls' = calls
         ELSE /\ calls' = Append(calls, [prim |-> loss, input |-> args.out,
                                         target |-> args.target])
              /\ result' = Return([by |-> loss, input |-> args.out,
                                   target |-> args.target])
    /\ pc' = "done"
    /\ UNCHANGED <<fn, args, i, acc, reduction, reads>>

CE_Logits == BinaryLoss("CE_Logits", "BCEWithLogitsLoss")

CE == BinaryLoss("CE", "BCELoss")

BCENext == CE_Logits \/ CE

SpecBCE == BCEInit /\ [][BCENext]_vars

----------------------------------------------------------------------------
(* CEL: cross entropy with optional class weights.  The tensors are their  *)
(* shapes; the loss itself is torch's CrossEntropyLoss.                    *)

\* the values a weight can take
WeightValues == {1, 2}

NoWeights == [given |-> FALSE]
\* a weights mapping, as the sequence of its values in insertion order
GivenWeights(vals) == [given |-> TRUE, vals |-> vals]

\* the shapes of rank 1 .. MaxRank
Shapes == SeqsUpTo(1 .. MaxDim, MaxRank) \ {<<>>}

\* the shape of class labels for an output [batch, class, *spatial_dims]
\* (or [class]): the output's shape without its class dimension
LabelShape(shape) ==
    IF Len(shape) = 1 THEN <<>>
    ELSE <<shape[1]>> \o SubSeq(shape, 3, Len(shape))

\* torch.squeeze(target, -1) when the target has a trailing singleton dimension
Squeeze(shape) ==
    IF Len(shape) > 1 /\ shape[Len(shape)] = 1
    THEN SubSeq(shape, 1, Len(shape) - 1)
    ELSE shape

\* a faulty validation, which lets too few weights through
WeightsMismatch_TooMany(shape, weights) ==
    weights.given /\ shape[Len(shape)] < Len(weights.vals)

\* the validation of the weights: TRUE when it raises
WeightsMismatch(shape, weights) ==
    weights.given /\ shape[Len(shape)] /= Len(weights.vals)

\* the weight tensor handed to CrossEntropyLoss
ClassWeights(weights) == IF weights.given THEN GivenWeights(weights.vals) ELSE NoWeights

CELInit ==
    /\ fn = "CEL"
    /\ \E shape \in Shapes, trailing \in BOOLEAN,
          weights \in {NoWeights} \cup {GivenWeights(w) : w \in SeqsUpTo(WeightValues, MaxDim + 1)} :
         args = [out |-> shape,
                 target |-> IF trailing THEN Append(LabelShape(shape), 1) ELSE LabelShape(shape),
                 params |-> [weights |-> weights]]
    /\ pc = "call"
    /\ i = 0
    /\ acc = 0
    /\ reduction = "mean"
    /\ calls = <<>>
    /\ reads = {}
    /\ result = Pending

CEL ==
    /\ fn = "CEL"
    /\ pc = "call"
    /\ reads' = reads \cup {"weights"}
    /\ IF WeightsMismatch(args.out, args.params.weights)
       THEN /\ result' = Raise("ValueError")
            /\ calls' = calls
       ELSE LET cel == [prim |-> "CrossEntropyLoss",
                        weight |-> ClassWeights(args.params.weights),
                        input |-> args.out,
                        target |-> Squeeze(args.target)]
            IN  /\ calls' = Append(calls, cel)
                /\ result' = Return(cel)
    /\ pc' = "done"
    /\ UNCHANGED <<fn, args, i, acc, reduction>>

SpecCEL == CELInit /\ [][CEL]_vars

----------------------------------------------------------------------------
(* Tensors of shape [batch, class]: a sequence of rows, one per sample,    *)
(* each a sequence with one element per class channel.  A vector is a      *)
(* sequence of elements.                                                   *)

\* the values of a tensor's one non-zero element
HotValues == {1, 3}

ZeroTensor(B, C) == [b \in 1 .. B |-> [c \in 1 .. C |-> 0]]

\* the [B, C] tensors with at most one non-zero element, taken from Hot
SparseTensors(B, C, Hot) ==
    {ZeroTensor(B, C)} \cup
    {[b \in 1 .. B |-> [c \in 1 .. C |-> IF b = hb /\ c = hc THEN v ELSE 0]] :
        hb \in 1 .. B, hc \in 1 .. C, v \in Hot}

Channels(t) == Len(t[1])

\* t[:, k, ...] for the class index k, counted from 0
Slice(t, k) == [b \in 1 .. Len(t) |-> t[b][k + 1]]

\* t.contiguous().view(-1) of a [batch, class] tensor: row-major
Flatten(t) ==
    [k \in 1 .. Len(t) * Channels(t) |->
        t[((k - 1) \div Channels(t)) + 1][((k - 1) % Channels(t)) + 1]]

Abs(x) == IF x < 0 THEN -x ELSE x

RECURSIVE SumSeq(_)
SumSeq(s) == IF s = <<>> THEN 0 ELSE s[1] + SumSeq(Tail(s))

----------------------------------------------------------------------------
(* CCE_Generic: a per-class loss summed over the class list.               *)

\* one_hot of GANDLF.utils: per sample, one position per class of the class
\* list, active where the label is that class
OneHot(labels, class_list) ==
    [b \in 1 .. Len(labels) |->
        [c \in 1 .. Len(class_list) |-> IF labels[b] = class_list[c] THEN 1 ELSE 0]]

\* the per-class losses a caller can pass as CCE_Type: callables of two
\* vectors, here the summed absolute and the summed squared error
CCE_Types == {"abs", "sq"}

CCE_Type(type, output, label) ==
    IF type = "abs"
    THEN SumSeq([k \in 1 .. Len(output) |-> Abs(output[k] - label[k])])
    ELSE SumSeq([k \in 1 .. Len(output) |-> (output[k] - label[k]) * (output[k] - label[k])])

\* a faulty weighting, which leaves the class's loss unweighted
WeightedLoss_Unweighted(curr, weights, k) == curr

\* curr_ce_loss after the weighting of class k
WeightedLoss(curr, weights, k) ==
    IF weights.given THEN curr * weights.vals[k + 1] ELSE curr

\* a faulty ending, which returns the accumulated loss without weights too
CCE_Outcome_Returns(acc_ce_loss, weights) == Return(acc_ce_loss)

\* what CCE_Generic ends in once the loop is over: the statement under
\* "weights is None" reads total_loss, a local that was never assigned
CCE_Outcome(acc_ce_loss, weights) ==
    IF ~weights.given THEN Raise("UnboundLocalError") ELSE Return(acc_ce_loss)

\* The class list names n <= channels classes, and a weights mapping has one
\* weight per class of the list.
CCEInit ==
    /\ fn = "CCE_Generic"
    /\ \E B \in 1 .. MaxBatch, C \in 1 .. MaxClasses :
         \E out \in SparseTensors(B, C, HotValues), labels \in [1 .. B -> 0 .. C - 1],
            n \in 0 .. C, type \in CCE_Types :
            \E weights \in {NoWeights} \cup {GivenWeights(w) : w \in [1 .. n -> WeightValues]} :
               args = [out |-> out, target |-> labels,
                       params |-> [model |-> [class_list |-> [c \in 1 .. n |-> c - 1]],
                                   weights |-> weights],
                       CCE_Type |-> type]
    /\ pc = "call"
    /\ i = 0
    /\ acc = 0
    /\ reduction = "mean"
    /\ calls = <<>>
    /\ reads = {}
    /\ result = Pending

\* acc_ce_loss = 0 and the one-hot expansion of the target
CCE_Begin ==
    /\ fn = "CCE_Generic"
    /\ pc = "call"
    /\ acc' = 0
    /\ args' = [args EXCEPT !.target = OneHot(args.target, args.params.model.class_list)]
    /\ reads' = reads \cup {"model.class_list"}
    /\ i' = 0
    /\ pc' = "loop"
    /\ UNCHANGED <<fn, reduction, calls, result>>

\* one iteration of the loop over the class list
CCE_Class ==
    /\ fn = "CCE_Generic"
    /\ pc = "loop"
    /\ i < Len(args.params.model.class_list)
    /\ LET output == Slice(args.out, i)
           label == Slice(args.target, i)
           curr_ce_loss == CCE_Type(args.CCE_Type, output, label)
       IN  /\ calls' = Append(calls, [prim |-> args.CCE_Type, class |-> i,
                                      output |-> output, label |-> label])
           /\ acc' = acc + WeightedLoss(curr_ce_loss, args.params.weights, i)
    /\ reads' = reads \cup {"model.class_list", "weights"}
    /\ i' = i + 1
    /\ UNCHANGED <<fn, args, pc, reduction, result>>

\* the statements after the loop
CCE_End ==
    /\ fn = "CCE_Generic"
    /\ pc = "loop"
    /\ i = Len(args.params.model.class_list)
    /\ result' = CCE_Outcome(acc, args.params.weights)
    /\ reads' = reads \cup {"weights"}
    /\ pc' = "done"
    /\ UNCHANGED <<fn, args, i, acc, reduction, calls>>

CCENext == CCE_Begin \/ CCE_Class \/ CCE_End

SpecCCE == CCEInit /\ [][CCENext]_vars

----------------------------------------------------------------------------
(* Loss values: rationals.  dims is 0 for a scalar and 1 for the vector    *)
(* that reduction "none" leaves.                                           *)

Zero == [nums |-> <<0>>, den |-> 1, dims |-> 0]

\* a + b, a scalar added to a vector being added to each of its elements
Plus(a, b) ==
    LET n == IF Len(a.nums) >= Len(b.nums) THEN Len(a.nums) ELSE Len(b.nums)
        at(x, k) == IF Len(x.nums) = 1 THEN x.nums[1] ELSE x.nums[k]
    IN  [nums |-> [k \in 1 .. n |-> at(a, k) * b.den + at(b, k) * a.den],
         den |-> a.den * b.den,
         dims |-> IF a.dims >= b.dims THEN a.dims ELSE b.dims]

\* a / k for a positive integer k
DivideBy(a, k) == [nums |-> a.nums, den |-> a.den * k, dims |-> a.dims]

\* equality of two loss values, as rationals
SameValue(a, b) ==
    /\ a.dims = b.dims
    /\ Len(a.nums) = Len(b.nums)
    /\ \A k \in 1 .. Len(a.nums) : a.nums[k] * b.den = b.nums[k] * a.den

----------------------------------------------------------------------------
(* L1 and MSE: the primitives, on flattened tensors.                       *)

Reductions == {"mean", "sum", "none"}

\* torch's L1Loss / MSELoss reduction of the elementwise losses
Reduce(elems, red) ==
    IF red = "mean" THEN [nums |-> <<SumSeq(elems)>>, den |-> Len(elems), dims |-> 0]
    ELSE IF red = "sum" THEN [nums |-> <<SumSeq(elems)>>, den |-> 1, dims |-> 0]
    ELSE [nums |-> elems, den |-> 1, dims |-> 1]

L1(output, label, red, scaling_factor) ==
    Reduce([k \in 1 .. Len(output) |-> Abs(output[k] - label[k] * scaling_factor)], red)

MSE(output, label, red, scaling_factor) ==
    Reduce([k \in 1 .. Len(output) |->
               (output[k] - label[k] * scaling_factor) * (output[k] - label[k] * scaling_factor)],
           red)

\* the defaults of the primitives' keyword parameters
DefaultReduction == "mean"
DefaultScalingFactor == 1

----------------------------------------------------------------------------
(* The configuration of L1_loss and MSE_loss.                              *)

NoParams == [given |-> FALSE]

\* an entry of loss_function: a mapping with a reduction, or a plain string
Mapping(red) == [isdict |-> TRUE, reduction |-> red]
PlainString == [isdict |-> FALSE]
Entries == {Mapping(red) : red \in Reductions} \cup {PlainString}

LossNames == {"l1", "mse"}
LossFunctions == UNION {[K -> Entries] : K \in SUBSET LossNames}

ScalingFactors == {1, 2}

\* the values of the target's one non-zero element
TargetValues == {1}

\* params["loss_function"][name]["reduction"]
ConfigReduction(loss_function, name) ==
    IF name \notin DOMAIN loss_function THEN Raise("KeyError")
    ELSE IF ~loss_function[name].isdict THEN Raise("TypeError")
    ELSE Return(loss_function[name].reduction)

\* the keys read by ConfigReduction
ConfigReads(loss_function, name) ==
    {"loss_function"}
    \cup (IF name \in DOMAIN loss_function THEN {"loss_function." \o name} ELSE {})
    \cup (IF name \in DOMAIN loss_function /\ loss_function[name].isdict
          THEN {"loss_function." \o name \o ".reduction"} ELSE {})

\* range(0, ...) of the per-class loops
LoopBound(inp, params) ==
    IF params.given THEN params.model.num_classes ELSE Channels(inp)

\* a faulty divisor, which ignores the configured class count
ClassCount_Channels(inp, params) == Channels(inp)

\* a faulty divisor, which takes the batch dimension without a configuration
ClassCount_Batch(inp, params) ==
    IF params.given THEN params.model.num_classes ELSE Len(inp)

\* the divisor of the final division
ClassCount(inp, params) ==
    IF params.given THEN params.model.num_classes ELSE Channels(inp)

\* A configuration's class count is 1 .. channels; a configuration handed to
\* L1_loss has its own entry, loss_function.l1, as a mapping.
RegInit ==
    /\ fn \in {"L1_loss", "MSE_loss"}
    /\ \E B \in 1 .. MaxBatch, C \in 1 .. MaxClasses :
         \E inp \in SparseTensors(B, C, HotValues), target \in SparseTensors(B, C, TargetValues),
            params \in {NoParams} \cup
                       {[given |-> TRUE, loss_function |-> lf, model |-> [num_classes |-> n],
                         scaling_factor |-> sf] :
                            lf \in LossFunctions, n \in 1 .. C, sf \in ScalingFactors} :
            /\ (fn = "L1_loss" /\ params.given) =>
                   ("l1" \in DOMAIN params.loss_function /\ params.loss_function["l1"].isdict)
            /\ args = [inp |-> inp, target |-> target, params |-> params]
    /\ pc = "call"
    /\ i = 0
    /\ acc = Zero
    /\ reduction = "mean"
    /\ calls = <<>>
    /\ reads = {}
    /\ result = Pending

\* the record of one call to a primitive; class is -1 for the whole tensor
PrimCall(prim, class, output, label, red, scaling_factor) ==
    [prim |-> prim, class |-> class, output |-> output, label |-> label,
     reduction |-> red, scaling_factor |-> scaling_factor]

----------------------------------------------------------------------------
(* L1_loss.                                                                *)

\* the loss_function entry each branch of L1_loss takes its reduction from
L1WholeKey == "l1"
L1ClassKey == "mse"

\* the branch for a batch of one: L1 once, on the whole tensor
L1_Whole ==
    /\ fn = "L1_loss"
    /\ pc = "call"
    /\ Len(args.inp) = 1
    /\ LET output == Flatten(args.inp)
           label == Flatten(args.target)
           params == args.params
       IN  IF params.given
           THEN LET red == ConfigReduction(params.loss_function, L1WholeKey)
                IN  /\ reads' = reads \cup ConfigReads(params.loss_function, L1WholeKey)
                                      \cup (IF red.kind = "value" THEN {"scaling_factor"} ELSE {})
                    /\ IF red.kind = "error"
                       THEN /\ result' = red
                            /\ pc' = "done"
                            /\ UNCHANGED <<acc, calls>>
                       ELSE /\ acc' = Plus(acc, L1(output, label, red.val, params.scaling_factor))
                            /\ calls' = Append(calls, PrimCall("L1", -1, output, label, red.val,
                                                               params.scaling_factor))
                            /\ pc' = "divide"
                            /\ UNCHANGED result
           ELSE /\ acc' = Plus(acc, L1(output, label, DefaultReduction, DefaultScalingFactor))
                /\ calls' = Append(calls, PrimCall("L1", -1, output, label, DefaultReduction,
                                                   DefaultScalingFactor))
                /\ pc' = "divide"
                /\ UNCHANGED <<reads, result>>
    /\ UNCHANGED <<fn, args, i, reduction>>

\* one iteration of the per-class loop
L1_Class ==
    /\ fn = "L1_loss"
    /\ pc \in {"call", "loop"}
    /\ Len(args.inp) /= 1
    /\ i < LoopBound(args.inp, args.params)
    /\ LET output == Slice(args.inp, i)
           label == Slice(args.target, i)
           params == args.params
       IN  IF params.given
           THEN LET red == ConfigReduction(params.loss_function, L1ClassKey)
                IN  /\ reads' = reads \cup {"model.num_classes"}
                                      \cup ConfigReads(params.loss_function, L1ClassKey)
                                      \cup (IF red.kind = "value" THEN {"scaling_factor"} ELSE {})
                    /\ IF red.kind = "error"
                       THEN /\ result' = red
                            /\ pc' = "done"
                            /\ UNCHANGED <<acc, calls, i>>
                       ELSE /\ acc' = Plus(acc, L1(output, label, red.val, params.scaling_factor))
                            /\ calls' = Append(calls, PrimCall("L1", i, output, label, red.val,
                                                               params.scaling_factor))
                            /\ i' = i + 1
                            /\ pc' = "loop"
                            /\ UNCHANGED result
           ELSE /\ acc' = Plus(acc, L1(output, label, DefaultReduction, DefaultScalingFactor))
                /\ calls' = Append(calls, PrimCall("L1", i, output, label, DefaultReduction,
                                                   DefaultScalingFactor))
                /\ i' = i + 1
                /\ pc' = "loop"
                /\ UNCHANGED <<reads, result>>
    /\ UNCHANGED <<fn, args, reduction>>

\* the division by the number of classes, and the return
L1_Divide ==
    /\ fn = "L1_loss"
    /\ \/ pc = "divide"
       \/ /\ pc \in {"call", "loop"}
          /\ Len(args.inp) /= 1
          /\ i = LoopBound(args.inp, args.params)
    /\ acc' = DivideBy(acc, ClassCount(args.inp, args.params))
    /\ result' = Return(acc')
    /\ reads' = reads \cup (IF args.params.given THEN {"model.num_classes"} ELSE {})
    /\ pc' = "done"
    /\ UNCHANGED <<fn, args, i, reduction, calls>>

----------------------------------------------------------------------------
(* MSE_loss.                                                               *)

\* a faulty selection, which reads the entry of the L1 loss
SelectReduction_L1(params) ==
    IF /\ params.given
       /\ "l1" \in DOMAIN params.loss_function
       /\ params.loss_function["l1"].isdict
    THEN params.loss_function["l1"].reduction
    ELSE "mean"

\* the reduction MSE_loss settles on before it branches
SelectReduction(params) ==
    IF /\ params.given
       /\ "mse" \in DOMAIN params.loss_function
       /\ params.loss_function["mse"].isdict
    THEN params.loss_function["mse"].reduction
    ELSE "mean"

MSE_Select ==
    /\ fn = "MSE_loss"
    /\ pc = "call"
    /\ reduction' = SelectReduction(args.params)
    /\ reads' = reads \cup (IF args.params.given
                            THEN ConfigReads(args.params.loss_function, "mse")
                            ELSE {})
    /\ pc' = "branch"
    /\ UNCHANGED <<fn, args, i, acc, calls, result>>

\* the branch for a batch of one: MSE once, on the whole tensor
MSE_Whole ==
    /\ fn = "MSE_loss"
    /\ pc = "branch"
    /\ Len(args.inp) = 1
    /\ LET output == Flatten(args.inp)
           label == Flatten(args.target)
           params == args.params
       IN  IF params.given
           THEN /\ acc' = Plus(acc, MSE(output, label, reduction, params.scaling_factor))
                /\ calls' = Append(calls, PrimCall("MSE", -1, output, label, reduction,
                                                   params.scaling_factor))
                /\ reads' = reads \cup {"scaling_factor"}
           ELSE /\ acc' = Plus(acc, MSE(output, label, DefaultReduction, DefaultScalingFactor))
                /\ calls' = Append(calls, PrimCall("MSE", -1, output, label, DefaultReduction,
                                                   DefaultScalingFactor))
                /\ UNCHANGED reads
    /\ pc' = "divide"
    /\ UNCHANGED <<fn, args, i, reduction, result>>

\* one iteration of the per-class loop
MSE_Class ==
    /\ fn = "MSE_loss"
    /\ pc \in {"branch", "loop"}
    /\ Len(args.inp) /= 1
    /\ i < LoopBound(args.inp, args.params)
    /\ LET output == Slice(args.inp, i)
           label == Slice(args.target, i)
           params == args.params
       IN  IF params.given
           THEN /\ acc' = Plus(acc, MSE(output, label, reduction, params.scaling_factor))
                /\ calls' = Append(calls, PrimCall("MSE", i, output, label, reduction,
                                                   params.scaling_factor))
                /\ reads' = reads \cup {"model.num_classes", "scaling_factor"}
           ELSE /\ acc' = Plus(acc, MSE(output, label, DefaultReduction, DefaultScalingFactor))
                /\ calls' = Append(calls, PrimCall("MSE", i, output, label, DefaultReduction,
                                                   DefaultScalingFactor))
                /\ UNCHANGED reads
    /\ i' = i + 1
    /\ pc' = "loop"
    /\ UNCHANGED <<fn, args, reduction, result>>

\* the division by the number of classes, and the return
MSE_Divide ==
    /\ fn = "MSE_loss"
    /\ \/ pc = "divide"
       \/ /\ pc \in {"branch", "loop"}
          /\ Len(args.inp) /= 1
          /\ i = LoopBound(args.inp, args.params)
    /\ acc' = DivideBy(acc, ClassCount(args.inp, args.params))
    /\ result' = Return(acc')
    /\ reads' = reads \cup (IF args.params.given THEN {"model.num_classes"} ELSE {})
    /\ pc' = "done"
    /\ UNCHANGED <<fn, args, i, reduction, calls>>

RegNext ==
    \/ L1_Whole \/ L1_Class \/ L1_Divide
    \/ MSE_Select \/ MSE_Whole \/ MSE_Class \/ MSE_Divide

SpecReg == RegInit /\ [][RegNext]_vars

----------------------------------------------------------------------------
(* Properties.                                                             *)

IsBCE == fn \in {"CE_Logits", "CE"}
IsReg == fn \in {"L1_loss", "MSE_loss"}

\* the class indices of the calls made so far, in order
Visited == [k \in 1 .. Len(calls) |-> calls[k].class]

\* 0, 1, ..., n - 1
UpTo(n) == [k \in 1 .. n |-> k - 1]

\* C1: a target of CE or CE_Logits holding an element other than 0 or 1 ends
\* the call in a ValueError, with no loss computed and none returned.
C1_NonBinaryTargetRejected ==
    (IsBCE /\ pc = "done" /\ \E k \in 1 .. Len(args.target) : args.target[k] \notin {0, 2})
        => (result = Raise("ValueError") /\ calls = <<>>)

\* C2: CEL raises a ValueError and returns no loss exactly when weights are
\* present and their number differs from out.shape[-1]; with equal lengths, or
\* without weights, the validation raises nothing and the loss is computed.
C2_WeightsLengthValidated ==
    (fn = "CEL" /\ pc = "done") =>
        LET weights == args.params.weights
            last == args.out[Len(args.out)]
        IN  IF weights.given /\ Len(weights.vals) /= last
            THEN result = Raise("ValueError") /\ calls = <<>>
            ELSE result.kind = "value" /\ Len(calls) = 1

C2_Witness ==
    /\ fn = "CEL" /\ pc = "done"
    /\ args.params.weights.given
    /\ Len(args.params.weights.vals) = 2
    /\ args.out = <<3, 3>>
    /\ result = Raise("ValueError")

\* C3: for an output [batch, class, *spatial_dims] with a spatial dimension,
\* weights whose number differs from the size of the class dimension make CEL
\* raise a ValueError.
C3_ClassCountValidated ==
    (/\ fn = "CEL" /\ pc = "done"
     /\ Len(args.out) >= 3
     /\ args.params.weights.given
     /\ Len(args.params.weights.vals) /= args.out[2])
        => result = Raise("ValueError")

RECURSIVE WeightedSum(_)
\* the sum over the class indices 0 .. k - 1 of weights[i] * CCE_Type(out[:, i], target[:, i])
WeightedSum(k) ==
    IF k = 0 THEN 0
    ELSE WeightedSum(k - 1)
         + args.params.weights.vals[k]
           * CCE_Type(args.CCE_Type, Slice(args.out, k - 1), Slice(args.target, k - 1))

\* C4: with weights, CCE_Generic returns the sum over the classes of the class
\* list, in order, of weights[i] * CCE_Type(out[:, i], onehot_target[:, i]),
\* undivided, each class contributing once.
C4_WeightedSumReturned ==
    (fn = "CCE_Generic" /\ pc = "done" /\ args.params.weights.given) =>
        LET n == Len(args.params.model.class_list)
        IN  /\ result = Return(WeightedSum(n))
            /\ Visited = UpTo(n)
            /\ \A k \in 1 .. n :
                  /\ calls[k].output = Slice(args.out, k - 1)
                  /\ calls[k].label = Slice(args.target, k - 1)

C4_Witness ==
    /\ fn = "CCE_Generic" /\ pc = "done"
    /\ args.params.weights = GivenWeights(<<1, 2>>)
    /\ Len(args.out) = 2
    /\ result.kind = "value"
    /\ result.val = 1 * CCE_Type(args.CCE_Type, Slice(args.out, 0), Slice(args.target, 0))
                    + 2 * CCE_Type(args.CCE_Type, Slice(args.out, 1), Slice(args.target, 1))
    /\ CCE_Type(args.CCE_Type, Slice(args.out, 0), Slice(args.target, 0)) > 0
    /\ CCE_Type(args.CCE_Type, Slice(args.out, 1), Slice(args.target, 1)) > 0

Primitive(output, label, red, scaling_factor) ==
    IF fn = "L1_loss" THEN L1(output, label, red, scaling_factor)
    ELSE MSE(output, label, red, scaling_factor)

\* the aggregator's own entry of loss_function
OwnKey == IF fn = "L1_loss" THEN "l1" ELSE "mse"

\* loss_function.<name>.reduction where it is configured, "mean" elsewhere
Configured(name) ==
    IF /\ args.params.given
       /\ name \in DOMAIN args.params.loss_function
       /\ args.params.loss_function[name].isdict
    THEN args.params.loss_function[name].reduction
    ELSE "mean"

RECURSIVE ClassSum(_, _, _)
\* the sum over the class channels 0 .. k - 1 of the primitive on the channel
ClassSum(k, red, scaling_factor) ==
    IF k = 0 THEN Zero
    ELSE Plus(ClassSum(k - 1, red, scaling_factor),
              Primitive(Slice(args.inp, k - 1), Slice(args.target, k - 1), red, scaling_factor))

\* C5: with a batch larger than 1 and a configuration, MSE_loss and L1_loss
\* return the sum over the classes 0 .. num_classes - 1 of the primitive on the
\* class channel, with the loss's configured reduction and the scaling factor,
\* divided by num_classes; each class is visited once, in increasing order.
C5_PerClassMean ==
    (IsReg /\ pc = "done" /\ Len(args.inp) > 1 /\ args.params.given) =>
        LET n == args.params.model.num_classes
        IN  /\ result.kind = "value"
            /\ Visited = UpTo(n)
            /\ SameValue(result.val,
                         DivideBy(ClassSum(n, Configured(OwnKey), args.params.scaling_factor), n))

\* C6: with a batch of exactly 1, MSE_loss and L1_loss apply the primitive once,
\* to the whole tensor, and divide that value by the number of classes:
\* num_classes with a configuration, inp.shape[1] without.
C6_SingleSampleWhole ==
    (IsReg /\ pc = "done" /\ Len(args.inp) = 1) =>
        LET red == Configured(OwnKey)
            sf == IF args.params.given THEN args.params.scaling_factor ELSE 1
            n == IF args.params.given THEN args.params.model.num_classes ELSE Channels(args.inp)
        IN  /\ calls = <<PrimCall(IF fn = "L1_loss" THEN "L1" ELSE "MSE", -1,
                                  Flatten(args.inp), Flatten(args.target), red, sf)>>
            /\ result.kind = "value"
            /\ SameValue(result.val,
                         DivideBy(Primitive(Flatten(args.inp), Flatten(args.target), red, sf), n))

C6_Witness ==
    /\ fn = "L1_loss" /\ pc = "done"
    /\ Len(args.inp) = 1 /\ Channels(args.inp) = 2
    /\ args.params.given
    /\ args.params.model.num_classes = 1
    /\ Len(calls) = 1
    /\ result.kind = "value"
    /\ result.val.nums[1] > 0

\* C7: without a configuration MSE_loss and L1_loss read no configuration key;
\* the loop bound and the divisor are inp.shape[1], the reduction is "mean" and
\* the scaling factor 1, in both branches.
C7_NoParamsDefaults ==
    (IsReg /\ ~args.params.given) =>
        /\ reads = {}
        /\ \A k \in 1 .. Len(calls) :
              calls[k].reduction = "mean" /\ calls[k].scaling_factor = 1
        /\ pc = "done" =>
              /\ Visited = IF Len(args.inp) = 1 THEN <<-1>> ELSE UpTo(Channels(args.inp))
              /\ result.kind = "value"
              /\ SameValue(result.val,
                           DivideBy(IF Len(args.inp) = 1
                                    THEN Primitive(Flatten(args.inp), Flatten(args.target), "mean", 1)
                                    ELSE ClassSum(Channels(args.inp), "mean", 1),
                                    Channels(args.inp)))

C7_Witness ==
    /\ fn = "MSE_loss" /\ pc = "done"
    /\ ~args.params.given
    /\ Len(args.inp) = 2 /\ Channels(args.inp) = 2
    /\ Len(calls) = 2
    /\ result.kind = "value"
    /\ result.val.nums[1] > 0

\* C8: with a configuration, L1_loss passes loss_function.l1.reduction to the
\* L1 primitive in the batch-of-1 branch and in the per-class branch alike, and
\* reads no other loss's entry.
C8_L1OwnReduction ==
    (fn = "L1_loss" /\ args.params.given) =>
        /\ \A k \in 1 .. Len(calls) :
              calls[k].reduction = args.params.loss_function["l1"].reduction
        /\ result.kind /= "error"
        /\ reads \cap {"loss_function.mse", "loss_function.mse.reduction"} = {}

\* C10: MSE_loss settles its reduction before it branches and before any call
\* to MSE: loss_function.mse.reduction when a configuration is given, has an
\* "mse" key and that key holds a mapping, "mean" in every other case; every
\* MSE call made with a configuration is passed that reduction.
C10_ReductionSelectedOnce ==
    (fn = "MSE_loss") =>
        LET params == args.params
            selected == IF ~params.given THEN "mean"
                        ELSE IF "mse" \notin DOMAIN params.loss_function THEN "mean"
                        ELSE IF ~params.loss_function["mse"].isdict THEN "mean"
                        ELSE params.loss_function["mse"].reduction
        IN  /\ pc = "call" => calls = <<>>
            /\ pc /= "call" => reduction = selected
            /\ params.given => \A k \in 1 .. Len(calls) : calls[k].reduction = selected

C10_Witness ==
    /\ fn = "MSE_loss" /\ pc = "done"
    /\ args.params.given
    /\ "mse" \in DOMAIN args.params.loss_function
    /\ args.params.loss_function["mse"] = Mapping("sum")
    /\ Len(args.inp) = 2
    /\ Len(calls) = 2
    /\ calls[2].reduction = "sum"

====
